---- MODULE Spec2Model ----
(***************************************************************************)
(* PowderDispenseController (src/PowderDispenserController/controller.py)  *)
(* as a state machine: the controller's call stack and attributes, the     *)
(* serial link (input buffer and frames written), the firmware and the     *)
(* operator as the environment, and the time the controller spends         *)
(* blocked in a read.                                                      *)
(*                                                                         *)
(* Text on the link is a sequence of lexemes, each an integer: a single    *)
(* byte keeps its ASCII code (60 '<', 62 '>', 58 ':', 44 ','), a maximal   *)
(* run of other characters (a word, a number literal) is one lexeme with   *)
(* a code above 255.  Masses are integers in units of 0.01 g.              *)
(*                                                                         *)
(* A step of the controller runs from one blocking call to the next and    *)
(* takes no time; time passes only while the controller is blocked.        *)
(***************************************************************************)
EXTENDS Integers, Sequences, FiniteSets, TLC

VARIABLES
    stack,            \* call stack of the controller: labels, innermost first
    outcome,          \* "running", "ok", or the name of the exception raised
    op,               \* the public method (or __init__) most recently invoked
    entry,            \* the flags and the calibration when it was invoked
    isStepperOn,      \* self.isStepperOn
    isScaleOn,        \* self.isScaleOn
    sent,             \* frames written to the link by the current operation
    dispensed,        \* step counts of the Dispense frames it has written
    lastStepper,      \* last stepper power command ever written
    lastScale,        \* last scale power command ever written
    tx,               \* the command on the link whose reply is outstanding
    rx,               \* self.ser input buffer: lexemes not yet read
    origin,           \* slow firmware: what it sent each frame in rx for
    bannerSeen,       \* a frame containing the readiness banner was received
    elapsed,          \* time the controller has been blocked in its wait
    cmd,              \* command_str handed to run_command, not yet written
    val,              \* value returned by the last get_weight / get_raw
    augers,           \* self.powder_config['calibration']['augers']
    pumps,            \* self.powder_config['calibration']['pumps']
    scaleSinglePointCal,  \* powder_config['calibration']['scaleSinglePointCal']
    saved,            \* powder_config handed to save_config by the current call
    slept,            \* seconds the current call has slept in scaleOn
    confirmed,        \* input() has returned since the last data point
    desired_amount,   \* argument of dispense_powder_seq
    current_amount,   \* local of dispense_powder_seq
    params,           \* arguments of the calibration sequence invoked
    steps_list,       \* local of calibrate_auger_seq
    measured_amounts, \* local of calibrate_auger_seq
    calibration_data, \* local of calibrate_scale_seq
    adc,              \* raw readings summed so far by record_weight
    mass,             \* simulated scale: the mass it reports
    stalled,          \* simulated scale: dispensing adds no more mass
    fwTook,           \* slow firmware: it has taken the last command written
    fwOwes,           \* slow firmware: frames it will still send for that one
    body,             \* a reply body handed to get_weight / get_raw alone
    parsed,           \* which of the two read it, "" before
    result            \* what it returned

ctl == <<stack, outcome>>
call == <<op, entry>>
devs == <<isStepperOn, isScaleOn>>
wire == <<sent, dispensed, lastStepper, lastScale, tx>>
inp == <<rx, origin, bannerSeen, elapsed>>
regs == <<cmd, val>>
conf == <<augers, pumps, scaleSinglePointCal>>
logs == <<saved, slept, confirmed>>
cals == <<params, steps_list, measured_amounts, calibration_data, adc>>
locs == <<desired_amount, current_amount, cals>>
env == <<mass, stalled, fwTook, fwOwes>>
pure == <<body, parsed, result>>

vars == <<ctl, call, devs, wire, inp, regs, conf, logs, locs, env, pure>>

----------------------------------------------------------------------------
(* Bounds of the model *)

MaxRx == 1          \* frames and stray bytes the input buffer may hold
MaxSent == 8        \* frames of one operation kept in the log `sent`
MaxElapsed == 15    \* the clock is not advanced beyond this
TickQuantum == 15   \* seconds that pass in one Tick
MaxBody == 4        \* lexemes of a reply body handed to the parser alone
MaxStream == 3      \* lexemes before a frame, and in it, handed to the decoder
MaxStepCount == 4   \* largest maxSteps of a fit computed alone
MaxSlope == 3       \* largest slope of the line the fitted points lie on

----------------------------------------------------------------------------
(* Lexemes *)

start_marker == 60
end_marker == 62
COLON == 58
COMMA == 44

MultiByte == <<"Weight", "ADC", "Ready to push powder, baby!", "text", "nan",
               "EWMA", "dispenseDir", "noise", "DEFAULT_DISPENSE_DIR",
               "Dispense", "DispenserOn", "DispenserOff", "ScaleOn", "ScaleOff",
               "Tare", "Meas", "Mix", "Drain", "Pump">>

Lx(s) == 255 + CHOOSE i \in 1..Len(MultiByte) : MultiByte[i] = s

TagWeight == Lx("Weight")
TagADC == Lx("ADC")
Banner == Lx("Ready to push powder, baby!")
Text == Lx("text")
NanLit == Lx("nan")
Noise == Lx("noise")
DEFAULT_filterType == Lx("EWMA")
dispenseDir == Lx("dispenseDir")
DEFAULT_direction == Lx("DEFAULT_DISPENSE_DIR")

NumLit(v) == 1000 + v
IsNumLit(x) == x >= 1000

None == -1
NaN == None - 1

Frame(b) == <<start_marker>> \o b \o <<end_marker>>

----------------------------------------------------------------------------
(* Pure helpers: string searches and the frame decoder *)

Contains(s, x) == \E i \in 1..Len(s) : s[i] = x

\* index of the first x in s at or after position from, 0 when there is none
FirstIdx(s, from, x) ==
    IF \E k \in from..Len(s) : s[k] = x
    THEN CHOOSE k \in from..Len(s) :
            s[k] = x /\ \A m \in from..(k - 1) : s[m] # x
    ELSE 0

IsBodyByte(x) == x # start_marker

\* recv_from_arduino's two read loops over the bytes of `stream`:
\* done = FALSE when the loops are still blocked in self.ser.read()
RecvFirstEnd(stream) ==
    LET i == FirstIdx(stream, 1, start_marker)
        j == IF i = 0 THEN 0 ELSE FirstIdx(stream, 1, end_marker)
    IN  IF j = 0
        THEN [done |-> FALSE, ck |-> <<>>, rest |-> <<>>]
        ELSE [done |-> TRUE,
              ck |-> SelectSeq(SubSeq(stream, i + 1, j - 1), IsBodyByte),
              rest |-> SubSeq(stream, j + 1, Len(stream))]
RecvFromArduino(stream) ==
    LET i == FirstIdx(stream, 1, start_marker)
        j == IF i = 0 THEN 0 ELSE FirstIdx(stream, i + 1, end_marker)
    IN  IF j = 0
        THEN [done |-> FALSE, ck |-> <<>>, rest |-> <<>>]
        ELSE [done |-> TRUE,
              ck |-> SelectSeq(SubSeq(stream, i + 1, j - 1), IsBodyByte),
              rest |-> SubSeq(stream, j + 1, Len(stream))]

\* what the input buffer holds: complete frames and stray bytes
Units(s) == Cardinality({i \in 1..Len(s) : s[i] \in {end_marker, Noise}})

----------------------------------------------------------------------------
(* Numbers.  A Python number that need not be whole is kept as a fraction  *)
(* <<n, d>> in lowest terms with d > 0.                                     *)

RECURSIVE GCD(_, _)
GCD(a, b) == IF b = 0 THEN a ELSE GCD(b, a % b)

Abs(x) == IF x < 0 THEN -x ELSE x

Frac(n, d) ==
    LET g == GCD(Abs(n), Abs(d))
        s == IF d < 0 THEN -1 ELSE 1
    IN  <<(s * n) \div g, (s * d) \div g>>

Whole(n) == <<n, 1>>

\* a / b for fractions a and b, b # 0
FracDiv(a, b) == Frac(a[1] * b[2], a[2] * b[1])

\* Python's < and <= on measurement values: NaN compares False
Lt(a, b) == a # NaN /\ b # NaN /\ a < b
Le(a, b) == a # NaN /\ b # NaN /\ a <= b

----------------------------------------------------------------------------
(* Commands and the call stack *)

Cmd(n, a) == [name |-> n, args |-> a]
NoCmd == Cmd("", <<>>)

\* str() of an argument: a word, or a number literal
ArgLx(a) ==
    IF Len(a) = 1 THEN a[1]
    ELSE IF a[2] = 1 THEN NumLit(a[1])
    ELSE NumLit(a[1]) * 1000 + a[2]

RECURSIVE Fields(_)
Fields(args) ==
    IF args = <<>> THEN <<>>
    ELSE <<COMMA, ArgLx(Head(args))>> \o Fields(Tail(args))

\* the f-strings of lines 279, 286, 294, 310, 326, 339, 349, 357, 380, 391
\* and 402: '<', the name, ',' and a field for each argument, '>'
CommandBody(c) == <<Lx(c.name)>> \o Fields(c.args)
CommandStr(c) == Frame(CommandBody(c))

StepperCmds == {"DispenserOn", "DispenserOff"}
ScaleCmds == {"ScaleOn", "ScaleOff"}

At(l) == stack # <<>> /\ Head(stack) = l
Goto(l) == stack' = <<l>> \o Tail(stack) /\ UNCHANGED outcome
CallTo(f, l) == stack' = <<f, l>> \o Tail(stack) /\ UNCHANGED outcome
Ret == /\ stack' = Tail(stack)
       /\ outcome' = IF Len(stack) = 1 THEN "ok" ELSE outcome
Raise(e) == stack' = <<>> /\ outcome' = e

----------------------------------------------------------------------------
(* COMMS *)

timeout == 10

\* line 80, self.ser.write: the frame goes on the link
send_to_arduino(c) ==
    /\ sent' = IF Len(sent) < MaxSent THEN Append(sent, c) ELSE sent
    /\ dispensed' = IF c.name = "Dispense" THEN dispensed \cup {c.args[1]}
                    ELSE dispensed
    /\ lastStepper' = IF c.name \in StepperCmds THEN c.name ELSE lastStepper
    /\ lastScale' = IF c.name \in ScaleCmds THEN c.name ELSE lastScale
    /\ tx' = c

\* line 102: the loop test, evaluated once, right after start_time is taken
TimedOut(start_time, now) == ~(now - start_time < timeout)

\* lines 95-110 once a complete frame r is there to be read: it is taken
\* off the buffer and its body returned
recv_from_arduino(r) ==
    /\ r.done
    /\ rx' = r.rest
    /\ origin' = SubSeq(origin, Units(rx) - Units(r.rest) + 1, Len(origin))
    /\ bannerSeen' = (bannerSeen \/ Contains(r.ck, Banner))
    /\ elapsed' = 0

\* the places where the controller waits for in_waiting and then reads
WaitLabels == {"rc_wait", "wait_for_arduino", "get_weight", "get_raw"}

\* the controller is blocked: in the busy-wait on in_waiting, or inside
\* self.ser.read() with no complete frame to read
Blocked ==
    /\ stack # <<>>
    /\ Head(stack) \in WaitLabels
    /\ ~RecvFromArduino(rx).done

\* lines 103-104: bytes before a start marker are read and dropped
recv_skip ==
    /\ Blocked
    /\ rx # <<>>
    /\ rx' = <<>>
    /\ origin' = <<>>
    /\ UNCHANGED <<ctl, call, devs, wire, bannerSeen, elapsed, regs, conf, logs,
                   locs, env, pure>>

\* time passes while the controller is blocked
Tick ==
    /\ Blocked
    /\ elapsed + TickQuantum <= MaxElapsed
    /\ elapsed' = elapsed + TickQuantum
    /\ UNCHANGED <<ctl, call, devs, wire, rx, origin, bannerSeen, regs, conf, logs,
                   locs, env, pure>>

\* lines 140-145: reset_input_buffer, then write the command
run_command ==
    /\ At("run_command")
    /\ rx' = <<>>
    /\ origin' = <<>>
    /\ fwTook' = FALSE
    /\ send_to_arduino(cmd)
    /\ cmd' = NoCmd
    /\ Goto("rc_wait")
    /\ UNCHANGED <<call, devs, bannerSeen, elapsed, val, conf, logs, locs, mass,
                   stalled, fwOwes, pure>>

\* lines 146-152: busy-wait for in_waiting, read one frame, print it
rc_no_wait ==
    /\ At("rc_wait")
    /\ Ret
    /\ UNCHANGED <<call, devs, wire, inp, regs, conf, logs, locs, env, pure>>
rc_wait ==
    /\ At("rc_wait")
    /\ rx # <<>>
    /\ IF TimedOut(elapsed, elapsed)
       THEN Raise("TimeoutError") /\ UNCHANGED inp
       ELSE recv_from_arduino(RecvFromArduino(rx)) /\ Ret
    /\ tx' = NoCmd
    /\ UNCHANGED <<call, devs, sent, dispensed, lastStepper, lastScale, regs, conf,
                   logs, locs, env, pure>>

\* line 119: the loop of wait_for_arduino ends on a body with the banner
WfaAnyFrame(msg) == TRUE
WfaDone(msg) == Contains(msg, Banner)

\* lines 118-123: frames are read until one contains the banner
wait_for_arduino ==
    /\ At("wait_for_arduino")
    /\ rx # <<>>
    /\ IF TimedOut(elapsed, elapsed)
       THEN Raise("TimeoutError") /\ UNCHANGED inp
       ELSE LET r == RecvFromArduino(rx)
            IN  /\ recv_from_arduino(r)
                /\ IF WfaDone(r.ck) THEN Ret ELSE UNCHANGED ctl
    /\ UNCHANGED <<call, devs, wire, regs, conf, logs, locs, env, pure>>

----------------------------------------------------------------------------
(* POWDERS: reading a measurement out of a reply body *)

\* str.split(sep) on a lexeme sequence
RECURSIVE Split(_, _)
Split(s, sep) ==
    LET k == FirstIdx(s, 1, sep)
    IN  IF k = 0 THEN <<s>>
        ELSE <<SubSeq(s, 1, k - 1)>> \o Split(SubSeq(s, k + 1, Len(s)), sep)

\* float(text) succeeds on a number literal, raises ValueError otherwise
IsFloat(text) == Len(text) = 1 /\ (IsNumLit(text[1]) \/ text[1] = NanLit)
FloatOf(text) == IF text[1] = NanLit THEN NaN ELSE text[1] - 1000

\* lines 172-175 and 198-201: what the except clause returns
ParseErrorZero == FloatOf(<<NumLit(0)>>)
ParseError == None

\* lines 168-175 and 194-201: msg.split(':')[1], then float of the text up
\* to the first ','; IndexError and ValueError are caught
ParseMeasurement(msg) ==
    LET pieces == Split(msg, COLON)
    IN  IF Len(pieces) < 2 THEN ParseError
        ELSE LET first == Split(pieces[2], COMMA)[1]
             IN  IF IsFloat(first) THEN FloatOf(first) ELSE ParseError

\* lines 167-177 and 193-203: a body with the tag ends the call with the
\* parsed value, any other body is printed and the loop reads on
MeasReply(tag, msg) ==
    IF Contains(msg, tag)
    THEN [returns |-> TRUE, value |-> ParseMeasurement(msg)]
    ELSE [returns |-> FALSE, value |-> None]

\* one pass of the loop of get_raw / get_weight
GetMeas(label, tag) ==
    /\ At(label)
    /\ rx # <<>>
    /\ IF TimedOut(elapsed, elapsed)
       THEN Raise("TimeoutError") /\ UNCHANGED <<inp, val>>
       ELSE LET r == RecvFromArduino(rx)
                m == MeasReply(tag, r.ck)
            IN  /\ recv_from_arduino(r)
                /\ IF m.returns
                   THEN val' = m.value /\ Ret
                   ELSE UNCHANGED <<val, ctl>>
    /\ UNCHANGED <<call, devs, wire, cmd, conf, logs, locs, env, pure>>

\* lines 162-178
get_raw == GetMeas("get_raw", TagADC)

\* lines 187-204
get_weight == GetMeas("get_weight", TagWeight)

----------------------------------------------------------------------------
(* Device state *)

\* lines 285, 293, 338, 348: the tests that guard the power commands
StepperAlways == TRUE
StepperIsOff == isStepperOn = FALSE
StepperIsOn == isStepperOn = TRUE
ScaleIsOff == isScaleOn = FALSE
ScaleIsOn == isScaleOn = TRUE

\* lines 285-286
enableStepper ==
    /\ At("enableStepper")
    /\ IF StepperIsOff
       THEN /\ cmd' = Cmd("DispenserOn", <<>>)
            /\ CallTo("run_command", "enableStepper_set")
       ELSE Ret /\ UNCHANGED cmd
    /\ UNCHANGED <<call, devs, wire, inp, val, conf, logs, locs, env, pure>>

\* line 287
enableStepper_set ==
    /\ At("enableStepper_set")
    /\ isStepperOn' = TRUE
    /\ Ret
    /\ UNCHANGED <<call, isScaleOn, wire, inp, regs, conf, logs, locs, env, pure>>

\* lines 293-294
disableStepper ==
    /\ At("disableStepper")
    /\ IF StepperIsOn
       THEN /\ cmd' = Cmd("DispenserOff", <<>>)
            /\ CallTo("run_command", "disableStepper_set")
       ELSE Ret /\ UNCHANGED cmd
    /\ UNCHANGED <<call, devs, wire, inp, val, conf, logs, locs, env, pure>>

\* line 295
disableStepper_set ==
    /\ At("disableStepper_set")
    /\ isStepperOn' = FALSE
    /\ Ret
    /\ UNCHANGED <<call, isScaleOn, wire, inp, regs, conf, logs, locs, env, pure>>

\* line 330: settle_time, 5 unless the caller of scaleOn gives one
settle_time == 5
SettleTime == IF op = "scaleOn" THEN params.settle_time ELSE settle_time

\* line 338 when the scale is already on: scaleOn returns
AlreadyOnSettles == Goto("scaleOn_sleep")
AlreadyOn == Ret

\* lines 338-339
scaleOn ==
    /\ At("scaleOn")
    /\ IF ScaleIsOff
       THEN /\ cmd' = Cmd("ScaleOn", <<>>)
            /\ CallTo("run_command", "scaleOn_set")
       ELSE AlreadyOn /\ UNCHANGED cmd
    /\ UNCHANGED <<call, devs, wire, inp, val, conf, logs, locs, env, pure>>

\* line 340
scaleOn_set ==
    /\ At("scaleOn_set")
    /\ isScaleOn' = TRUE
    /\ Goto("scaleOn_sleep")
    /\ UNCHANGED <<call, isStepperOn, wire, inp, regs, conf, logs, locs, env, pure>>

\* line 341: time.sleep(settle_time)
scaleOn_sleep ==
    /\ At("scaleOn_sleep")
    /\ slept' = slept + SettleTime
    /\ Ret
    /\ UNCHANGED <<call, devs, wire, inp, regs, conf, saved, confirmed, locs, env,
                   pure>>

\* lines 348-349
scaleOff ==
    /\ At("scaleOff")
    /\ IF ScaleIsOn
       THEN /\ cmd' = Cmd("ScaleOff", <<>>)
            /\ CallTo("run_command", "scaleOff_set")
       ELSE Ret /\ UNCHANGED cmd
    /\ UNCHANGED <<call, devs, wire, inp, val, conf, logs, locs, env, pure>>

\* line 350
scaleOff_set ==
    /\ At("scaleOff_set")
    /\ isScaleOn' = FALSE
    /\ Ret
    /\ UNCHANGED <<call, isStepperOn, wire, inp, regs, conf, logs, locs, env, pure>>

----------------------------------------------------------------------------
(* Construction *)

\* line 51
init_wait ==
    /\ At("__init__")
    /\ CallTo("wait_for_arduino", "init_flags")
    /\ UNCHANGED <<call, devs, wire, inp, regs, conf, logs, locs, env, pure>>

\* lines 54-68: the configuration is loaded, both flags are set True so
\* that the two calls that follow write their commands
init_flags_off ==
    /\ At("init_flags")
    /\ isScaleOn' = FALSE
    /\ isStepperOn' = FALSE
    /\ CallTo("disableStepper", "init_scaleOff")
    /\ UNCHANGED <<call, wire, inp, regs, conf, logs, locs, env, pure>>
init_flags ==
    /\ At("init_flags")
    /\ isScaleOn' = TRUE
    /\ isStepperOn' = TRUE
    /\ CallTo("disableStepper", "init_scaleOff")
    /\ UNCHANGED <<call, wire, inp, regs, conf, logs, locs, env, pure>>

\* line 70
init_scaleOff ==
    /\ At("init_scaleOff")
    /\ CallTo("scaleOff", "init_done")
    /\ UNCHANGED <<call, devs, wire, inp, regs, conf, logs, locs, env, pure>>

\* __init__ returns
init_done ==
    /\ At("init_done")
    /\ Ret
    /\ UNCHANGED <<call, devs, wire, inp, regs, conf, logs, locs, env, pure>>

----------------------------------------------------------------------------
(* Single control functions *)

avgReadingSamples == 100

\* lines 309-312: run_command, then return get_raw()
measRaw ==
    /\ At("measRaw")
    /\ cmd' = Cmd("ADC", <<Whole(avgReadingSamples), <<DEFAULT_filterType>>>>)
    /\ CallTo("run_command", "get_raw")
    /\ UNCHANGED <<call, devs, wire, inp, val, conf, logs, locs, env, pure>>

\* lines 325-328: run_command, then return get_weight()
measWeight_no_filter ==
    /\ At("measWeight")
    /\ cmd' = Cmd("Meas", <<Whole(avgReadingSamples)>>)
    /\ CallTo("run_command", "get_weight")
    /\ UNCHANGED <<call, devs, wire, inp, val, conf, logs, locs, env, pure>>
measWeight ==
    /\ At("measWeight")
    /\ cmd' = Cmd("Meas", <<Whole(avgReadingSamples), <<DEFAULT_filterType>>>>)
    /\ CallTo("run_command", "get_weight")
    /\ UNCHANGED <<call, devs, wire, inp, val, conf, logs, locs, env, pure>>

\* line 357
tare ==
    /\ At("tare")
    /\ cmd' = Cmd("Tare", <<>>)
    /\ Goto("run_command")
    /\ UNCHANGED <<call, devs, wire, inp, val, conf, logs, locs, env, pure>>

\* lines 52-54: the constructor's defaults
mixTime == 10
drainTime == 10
flushTime == 10

\* the pumps of the configuration file: pin, and a and b of time = a * volume + b
PumpTable == [Flush |-> [pin |-> 12, a |-> 2, b |-> 1]]

\* Python's `x or y` on an optional number: None and 0 are falsy
Or(x, y) == IF x = None \/ x = 0 THEN y ELSE x

\* lines 371-378: the duration, from the volume, else from the time, else 0
PumpTimeFirst(pump, volume, time) ==
    IF time # None /\ time > 0
    THEN time
    ELSE IF volume # None /\ volume > 0
    THEN pumps[pump].a * volume + pumps[pump].b ELSE 0
PumpTime(pump, volume, time) ==
    IF volume # None /\ volume > 0
    THEN pumps[pump].a * volume + pumps[pump].b
    ELSE IF time # None /\ time > 0 THEN time ELSE 0

\* lines 370-380: an unknown pump raises KeyError; no command is written
\* for a duration that is not positive
runPump ==
    /\ At("runPump")
    /\ IF params.pump \notin DOMAIN pumps
       THEN Raise("KeyError") /\ UNCHANGED cmd
       ELSE LET pump_time == PumpTime(params.pump, params.volume, params.time)
            IN  IF pump_time > 0
                THEN /\ cmd' = Cmd("Pump", <<Whole(pumps[params.pump].pin),
                                              Whole(pump_time)>>)
                     /\ Goto("run_command")
                ELSE Ret /\ UNCHANGED cmd
    /\ UNCHANGED <<call, devs, wire, inp, val, conf, logs, locs, env, pure>>

\* lines 390-391
runMixer ==
    /\ At("runMixer")
    /\ cmd' = Cmd("Mix", <<Whole(Or(params.duration, mixTime))>>)
    /\ Goto("run_command")
    /\ UNCHANGED <<call, devs, wire, inp, val, conf, logs, locs, env, pure>>

\* lines 401-402
runDrain ==
    /\ At("runDrain")
    /\ cmd' = Cmd("Drain", <<Whole(Or(params.duration, drainTime))>>)
    /\ Goto("run_command")
    /\ UNCHANGED <<call, devs, wire, inp, val, conf, logs, locs, env, pure>>

\* line 413: runFlush(volume, time) is runPump('Flush', volume, time)
runFlush ==
    /\ At("runFlush")
    /\ params' = [params EXCEPT !.pump = "Flush"]
    /\ Goto("runPump")
    /\ UNCHANGED <<op, entry, devs, wire, inp, regs, conf, logs,
                   desired_amount, current_amount, steps_list,
                   measured_amounts, calibration_data, adc, env, pure>>

\* lines 442-444: the two defaults, then runDrain(drainTime)
reset ==
    /\ At("reset")
    /\ params' = [params EXCEPT !.drainTime = Or(@, drainTime),
                                !.flushTime = Or(@, flushTime),
                                !.duration = Or(params.drainTime, drainTime)]
    /\ CallTo("runDrain", "reset_flush")
    /\ UNCHANGED <<op, entry, devs, wire, inp, regs, conf, logs,
                   desired_amount, current_amount, steps_list,
                   measured_amounts, calibration_data, adc, env, pure>>

\* lines 445-446: a second of sleep, then runFlush(flushTime): flushTime is
\* the first positional argument of runFlush, its volume
reset_flush ==
    /\ At("reset_flush")
    /\ slept' = slept + 1
    /\ params' = [params EXCEPT !.volume = params.flushTime, !.time = None]
    /\ CallTo("runFlush", "reset_drain")
    /\ UNCHANGED <<op, entry, devs, wire, inp, regs, conf, saved, confirmed,
                   desired_amount, current_amount, steps_list,
                   measured_amounts, calibration_data, adc, env, pure>>

\* lines 447-448: a second of sleep, then runDrain(drainTime) again
reset_drain ==
    /\ At("reset_drain")
    /\ slept' = slept + 1
    /\ params' = [params EXCEPT !.duration = params.drainTime]
    /\ CallTo("runDrain", "reset_end")
    /\ UNCHANGED <<op, entry, devs, wire, inp, regs, conf, saved, confirmed,
                   desired_amount, current_amount, steps_list,
                   measured_amounts, calibration_data, adc, env, pure>>

\* line 449: the last second of sleep
reset_end ==
    /\ At("reset_end")
    /\ slept' = slept + 1
    /\ Ret
    /\ UNCHANGED <<op, entry, devs, wire, inp, regs, conf, saved, confirmed,
                   locs, env, pure>>

DEFAULT_augerType == "8mm_base"
DEFAULT_powderType == "dishwasher_salt"
AugerTypes == {DEFAULT_augerType, "12mm_base"}
PowderTypes == {DEFAULT_powderType}

\* a key the calibration table does not hold
Missing == <<>>

\* line 273: neededSteps = amount_or_steps / augCalFactor
NeededStepsTimes(amount, augCalFactor) ==
    Frac(amount[1] * augCalFactor[1], amount[2] * augCalFactor[2])
NeededSteps(amount, augCalFactor) == FracDiv(amount, augCalFactor)

\* lines 266-279 of dispense, as the step of the caller that makes the call:
\* the step count is the argument itself or amount / calibration factor
dispense(amount_or_steps, direction, runSteps, augerType, powderType, ret) ==
    IF runSteps
    THEN /\ cmd' = Cmd("Dispense", <<amount_or_steps, <<direction>>>>)
         /\ CallTo("run_command", ret)
    ELSE LET augCalFactor == augers[augerType][powderType]
         IN  IF augCalFactor = Missing
             THEN Raise("KeyError") /\ UNCHANGED cmd
             ELSE IF augCalFactor[1] = 0
             THEN Raise("ZeroDivisionError") /\ UNCHANGED cmd
             ELSE /\ cmd' = Cmd("Dispense",
                        <<NeededSteps(amount_or_steps, augCalFactor), <<direction>>>>)
                  /\ CallTo("run_command", ret)

----------------------------------------------------------------------------
(* dispense_powder_seq *)

\* every variable a step of a sequence leaves alone besides its own locals
rest == <<call, devs, wire, inp, conf, logs, env, pure>>

Stages == {"coarse", "medium", "fine"}
StageLoop == [coarse |-> "dps_coarse", medium |-> "dps_medium", fine |-> "dps_fine"]
StageMeas == [coarse |-> "dps_coarse_meas", medium |-> "dps_medium_meas",
              fine |-> "dps_fine_meas"]
StageLog == [coarse |-> "dps_coarse_log", medium |-> "dps_medium_log",
             fine |-> "dps_fine_log"]
StageNext == [coarse |-> "dps_medium", medium |-> "dps_fine", fine |-> "dps_disable"]
StageBurstSwapped == [coarse |-> 20, medium |-> 400, fine |-> 5]
StageBurst == [coarse |-> 400, medium |-> 20, fine |-> 5]

\* the loop conditions of lines 585, 598 and 611
CoarseCond(current, desired) == Lt(current * 100, desired * 80)
MediumCond(current, desired) == Lt(current * 100, desired * 97)
FineCond(current, desired) == Lt(current, desired * 99)

StageCond(stage, current, desired) ==
    CASE stage = "coarse" -> CoarseCond(current, desired)
      [] stage = "medium" -> MediumCond(current, desired)
      [] stage = "fine" -> FineCond(current, desired)

\* line 553
dispense_powder_seq ==
    /\ At("dispense_powder_seq")
    /\ CallTo("scaleOn", "dps_tare1")
    /\ UNCHANGED <<rest, regs, locs>>

\* lines 554-557: two tare calls
dps_tare ==
    /\ \/ At("dps_tare1") /\ CallTo("tare", "dps_tare2")
       \/ At("dps_tare2") /\ CallTo("tare", "dps_meas1")
    /\ UNCHANGED <<rest, regs, locs>>

\* lines 558-559
dps_meas1 ==
    /\ At("dps_meas1")
    /\ CallTo("measWeight", "dps_meas2")
    /\ UNCHANGED <<rest, regs, locs>>

\* lines 559-561
dps_meas2 ==
    /\ At("dps_meas2")
    /\ current_amount' = val
    /\ CallTo("measWeight", "dps_enable")
    /\ UNCHANGED <<rest, regs, desired_amount, cals>>

\* lines 561-564
dps_enable_skipped ==
    /\ At("dps_enable")
    /\ current_amount' = val
    /\ Goto("dps_lump")
    /\ UNCHANGED <<rest, regs, desired_amount, cals>>
dps_enable ==
    /\ At("dps_enable")
    /\ current_amount' = val
    /\ CallTo("enableStepper", "dps_lump")
    /\ UNCHANGED <<rest, regs, desired_amount, cals>>

\* lines 565-566: initial_dispense_amount = desired_amount * 0.50
initial_dispense_amount(desired) == Frac(desired * 50, 100)

\* lines 565-568: the initial lump, half of the target by computed steps
dps_lump ==
    /\ At("dps_lump")
    /\ dispense(initial_dispense_amount(desired_amount), dispenseDir, FALSE,
                DEFAULT_augerType, DEFAULT_powderType, "dps_coarse")
    /\ UNCHANGED <<rest, val, locs>>

\* lines 585-586, 598-599, 611-612 and 624: a loop test and the burst or
\* the fall through to the next loop; comparing None raises TypeError
dps_while(stage) ==
    /\ At(StageLoop[stage])
    /\ IF current_amount = None
       THEN Raise("TypeError") /\ UNCHANGED cmd
       ELSE IF StageCond(stage, current_amount, desired_amount)
       THEN dispense(Whole(StageBurst[stage]), dispenseDir, TRUE,
                     DEFAULT_augerType, DEFAULT_powderType, StageMeas[stage])
       ELSE Goto(StageNext[stage]) /\ UNCHANGED cmd
    /\ UNCHANGED <<rest, val, locs>>

\* lines 587-588, 600-601, 613-614
dps_meas(stage) ==
    /\ At(StageMeas[stage])
    /\ CallTo("measWeight", StageLog[stage])
    /\ UNCHANGED <<rest, regs, locs>>

\* lines 588-597, 601-610, 614-623
dps_log(stage) ==
    /\ At(StageLog[stage])
    /\ current_amount' = val
    /\ Goto(StageLoop[stage])
    /\ UNCHANGED <<rest, regs, desired_amount, cals>>

\* line 624
dps_disable ==
    /\ At("dps_disable")
    /\ CallTo("disableStepper", "dps_done")
    /\ UNCHANGED <<rest, regs, locs>>

\* lines 625-634
dps_done ==
    /\ At("dps_done")
    /\ Ret
    /\ UNCHANGED <<rest, regs, locs>>

----------------------------------------------------------------------------
(* purge_dispenser *)

\* line 428: weight <= weight + 0.08
PurgeCond(weight) == Le(weight, weight + 8)

\* lines 423-427 and 432-433: the calls before and after the loop
purge_dispenser ==
    /\ \/ At("purge_dispenser") /\ CallTo("enableStepper", "purge_scaleOn")
       \/ At("purge_scaleOn") /\ CallTo("scaleOn", "purge_tare")
       \/ At("purge_tare") /\ CallTo("tare", "purge_meas")
       \/ At("purge_meas") /\ CallTo("measWeight", "purge_while")
       \/ At("purge_disable") /\ CallTo("disableStepper", "purge_done")
       \/ At("purge_done") /\ Ret
    /\ UNCHANGED <<rest, regs, locs>>

\* lines 428-432: weight is the value measWeight just returned
purge_while ==
    /\ At("purge_while")
    /\ IF val = None
       THEN Raise("TypeError") /\ UNCHANGED cmd
       ELSE IF PurgeCond(val)
       THEN dispense(Whole(200), dispenseDir, TRUE,
                     DEFAULT_augerType, DEFAULT_powderType, "purge_meas")
       ELSE CallTo("scaleOff", "purge_disable") /\ UNCHANGED cmd
    /\ UNCHANGED <<rest, val, locs>>

----------------------------------------------------------------------------
(* calibrate_auger_seq *)

\* the masses the operator may type at the prompt of line 477
OperatorEntries == {2, 4}

NoArg == "None"

RECURSIVE SumSeq(_)
SumSeq(s) == IF s = <<>> THEN 0 ELSE Head(s) + SumSeq(Tail(s))

RECURSIVE SumProd(_, _)
SumProd(s, t) ==
    IF s = <<>> THEN 0 ELSE Head(s) * Head(t) + SumProd(Tail(s), Tail(t))

\* slope of np.polyfit(x, y, 1) for a non-empty x of distinct values: the
\* least-squares slope; for a single point the minimum-norm solution of the
\* rank-deficient system, which numpy returns with a RankWarning
PolyfitIntercept(x, y) ==
    LET n == Len(x)
    IN  IF n = 1 THEN Frac(y[1], 2)
        ELSE Frac(SumSeq(y) * SumProd(x, x) - SumSeq(x) * SumProd(x, y),
                  n * SumProd(x, x) - SumSeq(x) * SumSeq(x))
PolyfitSlope(x, y) ==
    LET n == Len(x)
    IN  IF n = 1 THEN Frac(y[1], 2 * x[1])
        ELSE Frac(n * SumProd(x, y) - SumSeq(x) * SumSeq(y),
                  n * SumProd(x, x) - SumSeq(x) * SumSeq(x))

\* the value of `steps` in the for loop of line 475
NextSteps ==
    IF steps_list = <<>> THEN params.minSteps
    ELSE steps_list[Len(steps_list)] + params.stepInterval

\* lines 467-473: self.default_augerType and self.default_powderType are
\* read only when the argument is None, and are attributes nothing sets
calibrate_auger_seq ==
    /\ At("calibrate_auger_seq")
    /\ IF params.augerType = NoArg \/ params.powderType = NoArg
       THEN Raise("AttributeError")
       ELSE CallTo("enableStepper", "cas_for")
    /\ UNCHANGED <<rest, regs, locs>>

\* lines 475-476 and 481: the next step count is dispensed, or the loop ends
cas_for ==
    /\ At("cas_for")
    /\ IF params.stepInterval = 0
       THEN Raise("ValueError") /\ UNCHANGED cmd
       ELSE IF NextSteps <= params.maxSteps
       THEN dispense(Whole(NextSteps), DEFAULT_direction, TRUE,
                     params.augerType, params.powderType, "cas_input")
       ELSE CallTo("disableStepper", "cas_fit") /\ UNCHANGED cmd
    /\ UNCHANGED <<rest, val, locs>>

\* lines 477-480: the operator types the measured amount; float() of text
\* that is no number raises ValueError
cas_input ==
    /\ At("cas_input")
    /\ \E isNumber \in BOOLEAN, typed \in OperatorEntries :
        IF ~isNumber
        THEN Raise("ValueError") /\ UNCHANGED <<steps_list, measured_amounts>>
        ELSE /\ steps_list' = Append(steps_list, NextSteps)
             /\ measured_amounts' = Append(measured_amounts, typed)
             /\ Goto("cas_for")
    /\ UNCHANGED <<rest, regs, desired_amount, current_amount, params,
                   calibration_data, adc>>

\* self.powder_config['calibration'], the part of the configuration the
\* controller reads and writes
calibration ==
    [augers |-> augers, pumps |-> pumps,
     scaleSinglePointCal |-> scaleSinglePointCal]

\* line 483: the slope becomes the factor of the pair
StoreFactorForAll(table, augerType, powderType, slope) ==
    [table EXCEPT !.augers =
        [a \in DOMAIN table.augers |->
            [p \in DOMAIN table.augers[a] |-> slope]]]
StoreFactor(table, augerType, powderType, slope) ==
    [table EXCEPT !.augers[augerType][powderType] = slope]

\* lines 482-485: fit, store the slope, save the configuration
cas_fit ==
    /\ At("cas_fit")
    /\ IF steps_list = <<>>
       THEN Raise("TypeError") /\ UNCHANGED <<conf, saved>>
       ELSE LET slope == PolyfitSlope(steps_list, measured_amounts)
                table == StoreFactor(calibration, params.augerType,
                                     params.powderType, slope)
            IN  /\ augers' = table.augers
                /\ pumps' = table.pumps
                /\ scaleSinglePointCal' = table.scaleSinglePointCal
                /\ saved' = table
                /\ Ret
    /\ UNCHANGED <<call, devs, wire, inp, env, pure, regs, locs, slept, confirmed>>

----------------------------------------------------------------------------
(* calibrate_scale_seq, with a list of known weights *)

NanFrac == <<0, 0>>

Add(a, b) == IF a = NaN \/ b = NaN THEN NaN ELSE a + b

RECURSIVE SumVals(_)
SumVals(s) == IF s = <<>> THEN 0 ELSE Add(Head(s), SumVals(Tail(s)))

\* the weight record_weight is called with next: 0.0, then the known weight
NextWeight ==
    IF Len(calibration_data) % 2 = 0 THEN 0
    ELSE params.knownWeights[(Len(calibration_data) + 1) \div 2]

\* lines 497-500
calibrate_scale_seq ==
    /\ \/ At("calibrate_scale_seq") /\ CallTo("enableStepper", "css_scaleOn")
       \/ At("css_scaleOn") /\ CallTo("scaleOn", "css_ready")
    /\ UNCHANGED <<rest, regs, locs>>

\* lines 523-532: input() returns when the operator confirms
css_input ==
    /\ \/ At("css_ready") /\ Goto("css_for")
       \/ /\ At("css_for")
          /\ Len(calibration_data) < 2 * Len(params.knownWeights)
          /\ Goto("css_rec")
       \/ At("css_place") /\ Goto("css_rec")
    /\ confirmed' = TRUE
    /\ UNCHANGED <<call, devs, wire, inp, conf, saved, slept, env, pure, regs, locs>>

\* lines 528-531: after the zero point the operator is asked to place the
\* weight, after the weight the loop goes on; n points were recorded before
AfterRecordNoPrompt(n) == IF n % 2 = 0 THEN "css_rec" ELSE "css_for"
AfterRecord(n) == IF n % 2 = 0 THEN "css_place" ELSE "css_for"

\* lines 502-504: record_weight takes numMeas raw readings, then appends
css_rec ==
    /\ At("css_rec")
    /\ IF Len(adc) < params.numMeas
       THEN /\ CallTo("measRaw", "css_rec_add")
            /\ UNCHANGED <<calibration_data, adc, confirmed>>
       ELSE LET total == SumVals(adc)
                totalADC == IF total = NaN THEN NanFrac
                            ELSE Frac(total, params.numMeas)
            IN  /\ calibration_data' =
                       Append(calibration_data, <<NextWeight, totalADC>>)
                /\ adc' = <<>>
                /\ confirmed' = FALSE
                /\ Goto(AfterRecord(Len(calibration_data)))
    /\ UNCHANGED <<call, devs, wire, inp, conf, saved, slept, env, pure, regs,
                   desired_amount, current_amount, params, steps_list,
                   measured_amounts>>

\* line 502: sum() adds the reading; adding None raises TypeError
css_rec_add ==
    /\ At("css_rec_add")
    /\ IF val = None
       THEN Raise("TypeError") /\ UNCHANGED adc
       ELSE adc' = Append(adc, val) /\ Goto("css_rec")
    /\ UNCHANGED <<rest, regs, desired_amount, current_amount, params,
                   steps_list, measured_amounts, calibration_data>>

\* lines 533-534
css_off ==
    /\ \/ /\ At("css_for")
          /\ Len(calibration_data) >= 2 * Len(params.knownWeights)
          /\ CallTo("scaleOff", "css_disable")
       \/ At("css_disable") /\ CallTo("disableStepper", "css_fit")
    /\ UNCHANGED <<rest, regs, locs>>

AllSame(s) == \A i, j \in 1..Len(s) : s[i][1] = s[j][1]

\* lines 535-541: linregress rejects identical x values; the class defines
\* no update_config_with_calibration
css_fit ==
    /\ At("css_fit")
    /\ IF AllSame(calibration_data)
       THEN Raise("ValueError")
       ELSE Raise("AttributeError")
    /\ UNCHANGED <<rest, regs, locs>>

----------------------------------------------------------------------------
(* The caller *)

Desired == {100}

\* the calibration tables a configuration file may hold
Configs ==
    {[a \in AugerTypes |-> [p \in PowderTypes |-> f]] : f \in {Whole(1), Missing}}

\* what the caller may pass
AugerArgs == {<<NoArg, NoArg>>, <<DEFAULT_augerType, DEFAULT_powderType>>}
StepRanges == {<<1, 1, 1>>, <<1, 2, 1>>}
KnownWeightLists == {<<>>, <<100>>}
NumMeas == {1}

NoParams == [none |-> TRUE]

\* save_config has not been called
NotSaved == <<>>

constructed == ~(op = "__init__" /\ outcome # "ok")

PowerOps == {"enableStepper", "disableStepper", "scaleOn", "scaleOff"}

\* the caller invokes public method m on the constructed, idle controller;
\* the locals of the call before are gone
Invoke(m, desired, p) ==
    /\ stack = <<>>
    /\ constructed
    /\ stack' = <<m>>
    /\ op' = m
    /\ outcome' = "running"
    /\ sent' = <<>>
    /\ dispensed' = {}
    /\ entry' = [stepper |-> isStepperOn, scale |-> isScaleOn,
                 calibration |-> calibration]
    /\ saved' = NotSaved
    /\ slept' = 0
    /\ confirmed' = FALSE
    /\ val' = None
    /\ desired_amount' = desired
    /\ current_amount' = None
    /\ params' = p
    /\ steps_list' = <<>>
    /\ measured_amounts' = <<>>
    /\ calibration_data' = <<>>
    /\ adc' = <<>>
    /\ UNCHANGED <<devs, lastStepper, lastScale, tx, inp, cmd, conf, env, pure>>

\* what the caller may pass to scaleOn, runPump, runMixer and runDrain
SettleTimes == {settle_time, 2}
PumpNames == {"Flush", "Rinse"}
Volumes == {None, 0, 1}
Times == {None, 4}
Durations == {None, 0, 5}

InvokePower ==
    \E m \in PowerOps, s \in SettleTimes :
        Invoke(m, 0, IF m = "scaleOn" THEN [settle_time |-> s] ELSE NoParams)

InvokePump ==
    \E p \in PumpNames, v \in Volumes, t \in Times :
        Invoke("runPump", 0, [pump |-> p, volume |-> v, time |-> t])

InvokeMixer ==
    \E m \in {"runMixer", "runDrain"}, d \in Durations :
        Invoke(m, 0, [duration |-> d])

\* what the caller may pass to reset as flushTime
FlushTimes == {None, 3}

InvokeReset ==
    \E d \in Durations, f \in FlushTimes :
        Invoke("reset", 0, [drainTime |-> d, flushTime |-> f, duration |-> None,
                            pump |-> None, volume |-> None, time |-> None])

InvokeMeas == Invoke("measWeight", 0, NoParams)

InvokeDispense == \E d \in Desired : Invoke("dispense_powder_seq", d, NoParams)

InvokePurge == Invoke("purge_dispenser", 0, NoParams)

InvokeAuger ==
    \E a \in AugerArgs, r \in StepRanges :
        Invoke("calibrate_auger_seq", 0,
               [augerType |-> a[1], powderType |-> a[2],
                minSteps |-> r[1], maxSteps |-> r[2], stepInterval |-> r[3]])

InvokeScale ==
    \E k \in KnownWeightLists, n \in NumMeas :
        Invoke("calibrate_scale_seq", 0, [knownWeights |-> k, numMeas |-> n])

----------------------------------------------------------------------------
(* The firmware *)

Readings == {0, 80, 98, 100, 9900}
RawReadings == {97}

\* the banner is sent when the firmware starts, until the controller has
\* it; the other frames and a stray byte at any time
Replies ==
    (IF bannerSeen THEN {} ELSE {Frame(<<Banner>>)})
    \cup {Frame(<<Text>>), Frame(<<TagWeight>>), Frame(<<TagWeight, COLON, NanLit>>)}
    \cup {Frame(<<TagWeight, COLON, NumLit(v)>>) : v \in Readings}
    \cup {Frame(<<TagADC, COLON, NumLit(v)>>) : v \in RawReadings}

\* the controller is at a read of the link.  Bytes that arrive at any other
\* time wait in the buffer until the next read finds them or the next
\* reset_input_buffer drops them, so they are put on the link here.
Reading == stack # <<>> /\ Head(stack) \in WaitLabels

\* any firmware: it puts a frame, or a stray byte, on the link
FwEmit ==
    /\ Reading
    /\ Units(rx) < MaxRx
    /\ \E f \in Replies \cup {<<Noise>>} : rx' = rx \o f
    /\ UNCHANGED <<ctl, call, devs, wire, origin, bannerSeen, elapsed, regs, conf, logs,
                   locs, env, pure>>

\* the simulated scale: the next mass it can report after a burst
Up(m) ==
    IF \E r \in Readings : r > m
    THEN CHOOSE r \in Readings : r > m /\ \A q \in Readings : q > m => q >= r
    ELSE m

\* the simulated firmware answers the command on the link: an
\* acknowledgement, and the reading after it for Meas; a burst adds mass
\* unless the scale has stalled
FwReply ==
    /\ tx # NoCmd
    /\ rx' = rx \o Frame(<<Text>>) \o
             (IF tx.name = "Meas"
              THEN Frame(<<TagWeight, COLON, NumLit(mass)>>) ELSE <<>>)
    /\ mass' = CASE tx.name = "Tare" -> 0
                 [] tx.name = "Dispense" /\ ~stalled -> Up(mass)
                 [] OTHER -> mass
    /\ tx' = NoCmd
    /\ UNCHANGED <<ctl, call, devs, sent, dispensed, lastStepper, lastScale, origin,
                   bannerSeen, elapsed, regs, conf, logs, locs, stalled, fwTook,
                   fwOwes, pure>>

\* the hopper runs empty or clogs: from now on the mass stays what it is
Clog ==
    /\ ~stalled
    /\ stalled' = TRUE
    /\ UNCHANGED <<ctl, call, devs, wire, inp, regs, conf, logs, locs, mass, fwTook,
                   fwOwes, pure>>

----------------------------------------------------------------------------
(* The parser alone *)

ParseAlphabet == {TagWeight, TagADC, COLON, COMMA, NumLit(7), NanLit, Text}

\* a number literal is a maximal run: no two of them are adjacent
WellLexed(b) == \A i \in 1..(Len(b) - 1) : ~(IsNumLit(b[i]) /\ IsNumLit(b[i + 1]))

Bodies ==
    {b \in UNION {[1..n -> ParseAlphabet] : n \in 0..MaxBody} : WellLexed(b)}

\* get_weight / get_raw reads the one body
get_weight_body ==
    /\ parsed = ""
    /\ LET m == MeasReply(TagWeight, body)
       IN  /\ parsed' = IF m.returns THEN "get_weight" ELSE "reads on"
           /\ result' = m.value
    /\ UNCHANGED <<ctl, call, devs, wire, inp, regs, conf, logs, locs, env, body>>

get_raw_body ==
    /\ parsed = ""
    /\ LET m == MeasReply(TagADC, body)
       IN  /\ parsed' = IF m.returns THEN "get_raw" ELSE "reads on"
           /\ result' = m.value
    /\ UNCHANGED <<ctl, call, devs, wire, inp, regs, conf, logs, locs, env, body>>

----------------------------------------------------------------------------
(* The decoder, the fit and the deadline alone *)

Seqs(S, n) == UNION {[1..k -> S] : k \in 0..n}

\* what the firmware may put inside a frame, and some commands as written
SampleCmds ==
    {Cmd("Tare", <<>>), Cmd("Dispense", <<Whole(400), <<dispenseDir>>>>),
     Cmd("Pump", <<Whole(12), Whole(3)>>)}
StreamBodies ==
    Seqs({TagWeight, COMMA, NumLit(5)}, MaxStream)
    \cup {CommandBody(c) : c \in SampleCmds}

\* a frame in a byte stream: bytes that are no '<' before it, any bytes after
Streams ==
    [fn : {"recv_from_arduino"},
     before : Seqs({Noise, end_marker}, MaxStream),
     ck : StreamBodies,
     after : Seqs({Noise, start_marker, end_marker}, 1)]

\* the arguments of a calibration over a range of step counts, and the slope
\* k of the line the operator's readings lie on
Lines ==
    [fn : {"polyfit"}, minSteps : 1..2, maxSteps : 1..MaxStepCount,
     stepInterval : 1..2, k : 0..MaxSlope]

\* a timeout argument of recv_from_arduino and the configured default
\* targets in 0.01 g and calibration factors in 0.01 g per step
Lumps ==
    [fn : {"lump"}, desired_amount : {100, 300, 500},
     augCalFactor : {Whole(1), Whole(2), Frac(1, 2)}]
Deadlines == [fn : {"timeout"}, arg : {None, 3, 30}, DEFAULT_timeout : {10, 20}]

\* range(lo, hi + 1, step), step > 0
RECURSIVE Range(_, _, _)
Range(lo, hi, step) ==
    IF lo > hi THEN <<>> ELSE <<lo>> \o Range(lo + step, hi, step)

\* line 95: the local `timeout`; neither the argument nor
\* self.DEFAULT_timeout is read
RecvTimeout(arg, DEFAULT_timeout) == timeout

\* recv_from_arduino reads the one stream
recv_alone ==
    /\ parsed = ""
    /\ body.fn = "recv_from_arduino"
    /\ parsed' = body.fn
    /\ result' = RecvFromArduino(body.before \o Frame(body.ck) \o body.after)
    /\ UNCHANGED <<ctl, call, devs, wire, inp, regs, conf, logs, locs, env, body>>

\* lines 475-482 with the operator reading k * steps off the scale each time
polyfit_alone ==
    /\ parsed = ""
    /\ body.fn = "polyfit"
    /\ body.minSteps <= body.maxSteps
    /\ parsed' = body.fn
    /\ LET steps == Range(body.minSteps, body.maxSteps, body.stepInterval)
           amounts == [i \in 1..Len(steps) |-> body.k * steps[i]]
       IN  /\ steps_list' = steps
           /\ measured_amounts' = amounts
           /\ result' = PolyfitSlope(steps, amounts)
    /\ UNCHANGED <<ctl, call, devs, wire, inp, regs, conf, logs, desired_amount,
                   current_amount, params, calibration_data, adc, env, body>>

\* lines 566-568 and 273: the step count of the initial lump
lump_alone ==
    /\ parsed = ""
    /\ body.fn = "lump"
    /\ parsed' = body.fn
    /\ result' = NeededSteps(initial_dispense_amount(body.desired_amount),
                             body.augCalFactor)
    /\ UNCHANGED <<ctl, call, devs, wire, inp, regs, conf, logs, locs, env, body>>

\* lines 95-102: the deadline of one call of recv_from_arduino
timeout_alone ==
    /\ parsed = ""
    /\ body.fn = "timeout"
    /\ parsed' = body.fn
    /\ result' = RecvTimeout(body.arg, body.DEFAULT_timeout)
    /\ UNCHANGED <<ctl, call, devs, wire, inp, regs, conf, logs, locs, env, body>>

\* the slow firmware takes the command last written and acknowledges it;
\* it may send one more frame for that command later
FwTake ==
    /\ ~fwTook
    /\ fwOwes = 0
    /\ Units(rx) < MaxRx
    /\ fwTook' = TRUE
    /\ rx' = rx \o Frame(<<Text>>)
    /\ origin' = Append(origin, "reply")
    /\ \E n \in 0..1 : fwOwes' = n
    /\ UNCHANGED <<ctl, call, devs, wire, bannerSeen, elapsed, regs, conf, logs, locs,
                   mass, stalled, pure>>

\* the further frame, for the command the firmware took: by now the
\* controller may have written the next command
FwExtra ==
    /\ fwOwes > 0
    /\ Units(rx) < MaxRx
    /\ rx' = rx \o Frame(<<Text>>)
    /\ origin' = Append(origin, IF fwTook THEN "reply" ELSE "late")
    /\ fwOwes' = fwOwes - 1
    /\ UNCHANGED <<ctl, call, devs, wire, bannerSeen, elapsed, regs, conf, logs, locs,
                   mass, stalled, fwTook, pure>>

----------------------------------------------------------------------------
(* Specifications *)

\* the state after the port is opened, before __init__ waits for the banner
Start ==
    /\ stack = <<"__init__">>
    /\ op = "__init__"
    /\ outcome = "running"
    /\ pumps = PumpTable
    /\ scaleSinglePointCal = Whole(1)
    /\ entry = [stepper |-> FALSE, scale |-> FALSE, calibration |-> calibration]
    /\ saved = NotSaved
    /\ slept = 0
    /\ confirmed = FALSE
    /\ isStepperOn = FALSE
    /\ isScaleOn = FALSE
    /\ sent = <<>>
    /\ dispensed = {}
    /\ lastStepper = "none"
    /\ lastScale = "none"
    /\ tx = NoCmd
    /\ bannerSeen = FALSE
    /\ elapsed = 0
    /\ cmd = NoCmd
    /\ val = None
    /\ desired_amount = 0
    /\ current_amount = None
    /\ params = NoParams
    /\ steps_list = <<>>
    /\ measured_amounts = <<>>
    /\ calibration_data = <<>>
    /\ adc = <<>>
    /\ mass = 0
    /\ stalled = FALSE
    /\ origin = <<>>
    /\ fwTook = TRUE
    /\ fwOwes = 0
    /\ parsed = ""
    /\ result = None

Init ==
    /\ augers \in Configs
    /\ Start
    /\ rx = <<>>
    /\ body = <<>>

\* the steps of the controller that every specification has
Core ==
    \/ run_command
    \/ rc_wait
    \/ wait_for_arduino
    \/ init_wait
    \/ init_flags
    \/ init_scaleOff
    \/ init_done
    \/ enableStepper
    \/ enableStepper_set
    \/ disableStepper
    \/ disableStepper_set
    \/ scaleOn
    \/ scaleOn_set
    \/ scaleOn_sleep
    \/ scaleOff
    \/ scaleOff_set
    \/ get_weight
    \/ measWeight
    \/ tare
    \/ dispense_powder_seq
    \/ dps_tare
    \/ dps_meas1
    \/ dps_meas2
    \/ dps_enable
    \/ dps_lump
    \/ \E stage \in Stages : dps_while(stage) \/ dps_meas(stage) \/ dps_log(stage)
    \/ dps_disable
    \/ dps_done
    \/ purge_dispenser
    \/ purge_while

Next ==
    \/ Core
    \/ recv_skip
    \/ Tick
    \/ get_raw
    \/ measRaw
    \/ runPump
    \/ runMixer
    \/ runDrain
    \/ runFlush
    \/ reset
    \/ reset_flush
    \/ reset_drain
    \/ reset_end
    \/ calibrate_auger_seq
    \/ cas_for
    \/ cas_input
    \/ cas_fit
    \/ calibrate_scale_seq
    \/ css_input
    \/ css_rec
    \/ css_rec_add
    \/ css_off
    \/ css_fit
    \/ FwEmit
    \/ InvokePower
    \/ InvokePump
    \/ InvokeMixer
    \/ InvokeReset
    \/ InvokeMeas
    \/ InvokeDispense
    \/ InvokePurge
    \/ InvokeAuger
    \/ InvokeScale

\* the controller against any firmware
Spec == Init /\ [][Next]_vars

\* the controller against the simulated firmware and scale: the firmware
\* has booted and sent its banner, the configuration has the calibration
SimInit ==
    /\ augers = [a \in AugerTypes |-> [p \in PowderTypes |-> Whole(1)]]
    /\ Start
    /\ rx = Frame(<<Banner>>)
    /\ body = <<>>

SimNext ==
    \/ Core
    \/ Tick
    \/ FwReply
    \/ Clog
    \/ InvokeDispense
    \/ InvokePurge

\* a controller that can take a step takes one, and the firmware answers
\* every command
FairSim ==
    /\ SimInit
    /\ [][SimNext]_vars
    /\ WF_vars(Core)
    /\ WF_vars(FwReply)

\* the power methods against the slow firmware
SlowNext ==
    \/ run_command
    \/ rc_wait
    \/ wait_for_arduino
    \/ init_wait
    \/ init_flags
    \/ init_scaleOff
    \/ init_done
    \/ enableStepper
    \/ enableStepper_set
    \/ disableStepper
    \/ disableStepper_set
    \/ scaleOn
    \/ scaleOn_set
    \/ scaleOn_sleep
    \/ scaleOff
    \/ scaleOff_set
    \/ InvokePower
    \/ FwTake
    \/ FwExtra

SlowFw == SimInit /\ [][SlowNext]_vars

\* get_weight and get_raw applied to one reply body each
ParseInit ==
    /\ augers = [a \in AugerTypes |-> [p \in PowderTypes |-> Whole(1)]]
    /\ Start
    /\ rx = <<>>
    /\ body \in Bodies

ParseNext == get_weight_body \/ get_raw_body

ParseSpec == ParseInit /\ [][ParseNext]_vars

\* recv_from_arduino, the fit of calibrate_auger_seq and the deadline of
\* recv_from_arduino, each applied to one input
UnitInit ==
    /\ augers = [a \in AugerTypes |-> [p \in PowderTypes |-> Whole(1)]]
    /\ Start
    /\ rx = <<>>
    /\ body \in Streams \cup Lines \cup Deadlines \cup Lumps

UnitNext == recv_alone \/ polyfit_alone \/ timeout_alone \/ lump_alone

UnitSpec == UnitInit /\ [][UnitNext]_vars

----------------------------------------------------------------------------
(* Properties *)

DPS == "dispense_powder_seq"

\* the operations that power the stepper or the scale up themselves
HighLevelOps ==
    {DPS, "purge_dispenser", "calibrate_auger_seq", "calibrate_scale_seq"}

\* the command each power method writes and the value it gives its flag
PowerCmd == [enableStepper |-> "DispenserOn", disableStepper |-> "DispenserOff",
             scaleOn |-> "ScaleOn", scaleOff |-> "ScaleOff"]
PowerTarget == [enableStepper |-> TRUE, disableStepper |-> FALSE,
                scaleOn |-> TRUE, scaleOff |-> FALSE]
PowerFlag(m, flags) ==
    IF m \in {"enableStepper", "disableStepper"} THEN flags.stepper ELSE flags.scale

\* C1: a request that has seen no start marker since its command was
\* written has not waited longer than the timeout: by then it has ended
\* with TimeoutError.
C1_TimeoutHonoured ==
    (tx # NoCmd /\ ~Contains(rx, start_marker)) => elapsed <= timeout

\* C2: when dispense_powder_seq has returned normally the stepper and the
\* scale are off, and the last power commands written are <DispenserOff>
\* and <ScaleOff>.
C2_DoneAllOff ==
    (op = DPS /\ outcome = "ok") =>
        /\ isStepperOn = FALSE
        /\ isScaleOn = FALSE
        /\ lastStepper = "DispenserOff"
        /\ lastScale = "ScaleOff"

\* C3: a 5-step burst of dispense_powder_seq is on the link only when the
\* most recent measurement is below 99% of the target.
C3_FineBurstBelow99 ==
    (/\ op = DPS
     /\ tx.name = "Dispense"
     /\ \E i \in 1..Len(stack) : stack[i] = StageMeas.fine) =>
        current_amount * 100 < desired_amount * 99

\* dispense_powder_seq is running and has switched the stepper on
Filling == op = DPS /\ outcome = "running" /\ lastStepper = "DispenserOn"

\* it is running against a scale that has stalled below 80% of the target
FillingStalled == Filling /\ stalled /\ mass * 100 < desired_amount * 80

\* it is running against a scale that reports 99% of the target or more
FillingAtTarget == Filling /\ mass * 100 >= desired_amount * 99

\* C4: once the stepper is on in dispense_powder_seq and the scale has
\* stalled below 80% of the target, the operation ends instead of bursting
\* forever.
C4_StallEnds == FillingStalled ~> (outcome # "running")

\* C5: once the stepper is on in dispense_powder_seq and the simulated
\* scale, which never goes down, reports 99% of the target or more, the
\* operation reaches Done.
C5_Converges == FillingAtTarget ~> (op = DPS /\ outcome = "ok")

\* C6: purge_dispenser eventually stops dispensing and ends, whatever the
\* scale does.
C6_PurgeEnds ==
    (op = "purge_dispenser" /\ outcome = "running")
        ~> (op = "purge_dispenser" /\ outcome # "running")

\* C7: when a high-level operation has exited, on any path, every
\* <DispenserOn> and <ScaleOn> it wrote is followed by the matching
\* <DispenserOff> / <ScaleOff>.
C7_PoweredDownOnExit ==
    (op \in HighLevelOps /\ outcome # "running" /\ Len(sent) < MaxSent) =>
        \A i \in 1..Len(sent) :
            /\ sent[i].name = "DispenserOn" =>
                  \E j \in (i + 1)..Len(sent) : sent[j].name = "DispenserOff"
            /\ sent[i].name = "ScaleOn" =>
                  \E j \in (i + 1)..Len(sent) : sent[j].name = "ScaleOff"

\* C8: a call of enableStepper, disableStepper, scaleOn or scaleOff writes
\* at most one frame, its own power command, and writes it if and only if
\* the flag did not already have the value the call gives it; a call on a
\* flag that is already there writes nothing.
C8_IdempotentPower ==
    op \in PowerOps =>
        LET already == PowerFlag(op, entry) = PowerTarget[op]
            now == PowerFlag(op, [stepper |-> isStepperOn, scale |-> isScaleOn])
        IN  /\ Len(sent) <= 1
            /\ sent # <<>> => (sent[1].name = PowerCmd[op] /\ ~already)
            /\ outcome = "ok" =>
                  /\ now = PowerTarget[op]
                  /\ (sent # <<>>) <=> (now # PowerFlag(op, entry))

\* C8 witness: a second enableStepper in a row has returned and wrote nothing
C8_SecondEnableSilent ==
    /\ op = "enableStepper"
    /\ outcome = "ok"
    /\ entry.stepper = TRUE
    /\ lastStepper = "DispenserOn"
    /\ sent = <<>>

\* C9: nothing is written to the link, and nothing is handed to
\* run_command, before a frame with the readiness banner has been
\* received; until then the constructor is still in wait_for_arduino.
C9_HandshakeFirst ==
    ~bannerSeen =>
        /\ sent = <<>>
        /\ tx = NoCmd
        /\ cmd = NoCmd
        /\ lastStepper = "none"
        /\ lastScale = "none"
        /\ op = "__init__"
        /\ stack # <<>>
        /\ Head(stack) \in {"__init__", "wait_for_arduino"}

\* C9 witness: the constructor has written its first command, after the banner
C9_FirstWriteAfterBanner ==
    /\ op = "__init__"
    /\ bannerSeen
    /\ Len(sent) = 1
    /\ tx = sent[1]

\* the text between the first ':' of b and the next ',' or ':' is a number
FirstValueNumeric(b) ==
    LET c == FirstIdx(b, 1, COLON)
    IN  /\ c # 0
        /\ c + 1 <= Len(b)
        /\ IsNumLit(b[c + 1]) \/ b[c + 1] = NanLit
        /\ c + 2 <= Len(b) => b[c + 2] \in {COMMA, COLON}

\* C10: get_weight and get_raw return None, and no number, for a body that
\* has the tag but no ':' or no numeric first value.
C10_ParseFailureIsNone ==
    (parsed \in {"get_weight", "get_raw"} /\ ~FirstValueNumeric(body)) =>
        result = None

\* C10 witness: get_weight has returned None for a body with the tag and a
\* ':' followed by text that is no number
C10_MalformedRead ==
    /\ parsed = "get_weight"
    /\ Contains(body, TagWeight)
    /\ Contains(body, COLON)
    /\ ~FirstValueNumeric(body)
    /\ result = None

\* get_weight takes a complete frame with the body 'garbage' off the buffer
ReadsGarbage ==
    /\ At("get_weight")
    /\ RecvFromArduino(rx).done
    /\ RecvFromArduino(rx).ck = <<Text>>
    /\ rx' = RecvFromArduino(rx).rest

\* C11: when get_weight receives the body 'garbage', which lacks the tag
\* 'Weight', the measurement returns to its caller, with None and without
\* an exception.
C11_GarbageIsUnavailable ==
    [][ReadsGarbage =>
          /\ stack' = Tail(stack)
          /\ val' = None
          /\ outcome' \in {"running", "ok"}]_vars

\* C12: from a stream that holds bytes other than '<', then '<' body '>'
\* with no '<' or '>' in body, then anything, recv_from_arduino returns
\* exactly body and leaves exactly what follows the first '>' after the '<'.
C12_FrameRoundTrip ==
    parsed = "recv_from_arduino" =>
        /\ result.done
        /\ result.ck = body.ck
        /\ result.rest = body.after

\* C12 witness: <Dispense,400,dispenseDir> was read back, name and both
\* parameters, from behind a stray '>' and with a byte left after it
C12_DispenseReadBack ==
    /\ parsed = "recv_from_arduino"
    /\ Contains(body.before, end_marker)
    /\ body.after # <<>>
    /\ Split(result.ck, COMMA) =
           <<<<Lx("Dispense")>>, <<NumLit(400)>>, <<dispenseDir>>>>
    /\ result.rest = body.after

\* a step that puts a command on the link
Writes == tx' # tx /\ tx' # NoCmd

\* a step that leaves the wait of run_command
LeavesWait == At("rc_wait") /\ stack' # stack

\* C13: a command whose reply is not resolved is on the link only while
\* the controller is in the wait of the run_command call that wrote it;
\* every write is the one write of a run_command call, made with no other
\* command unresolved and the input buffer cleared; and that call returns,
\* or raises TimeoutError, by consuming exactly one frame.
C13_OneExchange ==
    /\ [](tx # NoCmd => At("rc_wait"))
    /\ [][Writes =>
             /\ At("run_command")
             /\ tx = NoCmd
             /\ tx' = cmd
             /\ rx' = <<>>
             /\ Len(sent) < MaxSent => sent' = Append(sent, cmd)
             /\ stack' = <<"rc_wait">> \o Tail(stack)]_vars
    /\ [][LeavesWait =>
             /\ tx' = NoCmd
             /\ sent' = sent
             /\ \/ outcome' = "TimeoutError"
                \/ /\ stack' = Tail(stack)
                   /\ RecvFromArduino(rx).done
                   /\ rx' = RecvFromArduino(rx).rest]_vars

\* C13 witness: the second command of an operation is on the link, after
\* the first was resolved, and the buffer is clear
C13_SecondExchange ==
    /\ At("rc_wait")
    /\ Len(sent) = 2
    /\ tx = sent[2]
    /\ rx = <<>>

\* C14: when calibrate_scale_seq has taken every reading for a list of
\* known weights and has ended, it has ended normally and the
\* configuration with the fitted pair has been handed to save_config.
C14_ScaleFitPersisted ==
    (/\ op = "calibrate_scale_seq"
     /\ outcome # "running"
     /\ params.knownWeights # <<>>
     /\ Len(calibration_data) = 2 * Len(params.knownWeights)) =>
        /\ outcome = "ok"
        /\ saved # NotSaved

\* s = <<n, d>> solves the normal equations of the least-squares line
\* through the points (x[i], y[i])
IsLeastSquaresSlope(s, x, y) ==
    LET n == Len(x)
    IN  s[2] * (n * SumProd(x, y) - SumSeq(x) * SumSeq(y)) =
        s[1] * (n * SumProd(x, x) - SumSeq(x) * SumSeq(x))

\* C15: when calibrate_auger_seq(augerType = A, powderType = P) has
\* returned, the factor of (A, P) is the least-squares slope of the pairs
\* collected, every other factor and the pump and scale calibration are
\* what they were when it was called, and the table as updated was handed
\* to save_config.
C15_SlopeStoredForPair ==
    (op = "calibrate_auger_seq" /\ outcome = "ok") =>
        /\ IsLeastSquaresSlope(augers[params.augerType][params.powderType],
                               steps_list, measured_amounts)
        /\ \A a \in AugerTypes, p \in PowderTypes :
               <<a, p>> # <<params.augerType, params.powderType>> =>
                   augers[a][p] = entry.calibration.augers[a][p]
        /\ pumps = entry.calibration.pumps
        /\ scaleSinglePointCal = entry.calibration.scaleSinglePointCal
        /\ saved = calibration

\* C15 witness: a calibration of the default pair over the step counts 1
\* and 2 has stored the slope 2 where the factor was 1, and has left the
\* factor of the other auger at 1
C15_DefaultPairRefitted ==
    /\ op = "calibrate_auger_seq"
    /\ outcome = "ok"
    /\ steps_list = <<1, 2>>
    /\ measured_amounts = <<2, 4>>
    /\ entry.calibration.augers[DEFAULT_augerType][DEFAULT_powderType] = Whole(1)
    /\ augers[DEFAULT_augerType][DEFAULT_powderType] = Whole(2)
    /\ augers["12mm_base"][DEFAULT_powderType] = Whole(1)
    /\ saved = calibration

\* C16: when the operator's readings lie on the line mass = k * steps and
\* at least two step counts were dispensed, the slope fitted is k.
C16_FitRecoversSlope ==
    (parsed = "polyfit" /\ Len(steps_list) >= 2) => result = Whole(body.k)

\* C16 witness: three points on the line of slope 3 were fitted to slope 3
C16_ThreePointsOnLine ==
    /\ parsed = "polyfit"
    /\ steps_list = <<2, 3, 4>>
    /\ measured_amounts = <<6, 9, 12>>
    /\ result = Whole(3)

\* the fields of each recognized command, its name included
WireShapes ==
    [Dispense |-> 3, DispenserOn |-> 1, DispenserOff |-> 1, ScaleOn |-> 1,
     ScaleOff |-> 1, Tare |-> 1, ADC |-> 3, Meas |-> 3, Mix |-> 2,
     Drain |-> 2, Pump |-> 3]

\* the frame written for command c is '<', a recognized name and the
\* fields of that name, each non-empty and separated by ',', then '>'
WellShaped(c) ==
    LET frame == CommandStr(c)
        fields == Split(SubSeq(frame, 2, Len(frame) - 1), COMMA)
    IN  /\ frame[1] = start_marker
        /\ frame[Len(frame)] = end_marker
        /\ \A k \in 1..Len(fields) :
               Len(fields[k]) = 1 /\ fields[k][1] \notin {start_marker, end_marker}
        /\ \E n \in DOMAIN WireShapes :
               fields[1] = <<Lx(n)>> /\ Len(fields) = WireShapes[n]

\* C17: every frame written to the link, by any operation, is one of the
\* recognized commands with the field count of its shape.
C17_WireShapes ==
    /\ tx # NoCmd => WellShaped(tx)
    /\ \A i \in 1..Len(sent) : WellShaped(sent[i])

\* C17 witness: runPump has written <Pump,12,3> and waits for the reply
C17_PumpFrameWritten ==
    /\ op = "runPump"
    /\ At("rc_wait")
    /\ CommandStr(tx) =
           Frame(<<Lx("Pump"), COMMA, NumLit(12), COMMA, NumLit(3)>>)

\* C18: scaleOn(settle_time) sleeps settle_time exactly when it wrote
\* <ScaleOn>, which it does only when isScaleOn was False; a call made
\* while isScaleOn is True writes nothing and does not sleep.
C18_SettleOnlyOnTransition ==
    op = "scaleOn" =>
        /\ entry.scale => sent = <<>> /\ tx = NoCmd /\ slept = 0
        /\ slept # 0 => sent = <<Cmd("ScaleOn", <<>>)>> /\ isScaleOn
        /\ (outcome = "ok" /\ ~entry.scale) =>
               sent = <<Cmd("ScaleOn", <<>>)>> /\ slept = params.settle_time

\* C18 witness: scaleOn(2) has returned from a call made with the scale on
C18_AlreadyOnReturned ==
    /\ op = "scaleOn"
    /\ outcome = "ok"
    /\ entry.scale
    /\ params.settle_time = 2
    /\ slept = 0

\* C19: the deadline of recv_from_arduino(timeout) is the timeout the
\* caller gives and, when none is given, the configured DEFAULT_timeout.
C19_DeadlineFromCaller ==
    parsed = "timeout" =>
        result = IF body.arg = None THEN body.DEFAULT_timeout ELSE body.arg

\* a Dispense command of one of the fixed bursts of lines 586, 599, 612
IsBurst(c) ==
    /\ c.name = "Dispense"
    /\ \E stage \in Stages : c.args[1] = Whole(StageBurst[stage])

\* C20: in dispense_powder_seq every fixed burst follows a measurement
\* taken after the Dispense before it, the initial lump included: the
\* command written just before a burst is a Meas.
C20_BurstAfterMeasurement ==
    op = DPS =>
        \A i \in 1..Len(sent) :
            IsBurst(sent[i]) => i > 1 /\ sent[i - 1].name = "Meas"

\* the tag get_weight / get_raw look for after the command c
ExpectedTag(c) == IF c.name = "Meas" THEN TagWeight ELSE TagADC

\* the first frame after <Meas,...> or <ADC,...> is taken off the buffer
\* and its body has the expected tag
ReadsFirstTagged ==
    /\ At("rc_wait")
    /\ tx.name \in {"Meas", "ADC"}
    /\ RecvFromArduino(rx).done
    /\ Contains(RecvFromArduino(rx).ck, ExpectedTag(tx))
    /\ rx' = RecvFromArduino(rx).rest

\* C21: the first frame with the expected tag received after <Meas,...>
\* or <ADC,...> ends measWeight / measRaw with the value it carries, also
\* when it is the only frame the firmware sends.
C21_FirstTaggedReplyReturned ==
    [][ReadsFirstTagged =>
          /\ val' = ParseMeasurement(RecvFromArduino(rx).ck)
          /\ stack' = Tail(Tail(stack))]_vars

\* the step counts of the fixed bursts
FixedSteps == {Whole(StageBurst[stage]) : stage \in Stages}

\* dispense_powder_seq writes a Dispense command
DpsDispenses == op = DPS /\ Writes /\ tx'.name = "Dispense"

\* C22: in one dispense_powder_seq the first Dispense is the computed
\* lump, every later one is a fixed burst, and no burst is larger than a
\* burst written before it: 400s, then 20s, then 5s.
C22_GranularityNeverIncreases ==
    [][DpsDispenses =>
          IF dispensed = {}
          THEN ~IsBurst(tx')
          ELSE /\ IsBurst(tx')
               /\ \A d \in dispensed \cap FixedSteps :
                      d[1] >= tx'.args[1][1]]_vars

\* C22 witness: a session has written the lump and bursts of all three sizes
C22_AllThreeSizes ==
    /\ op = DPS
    /\ FixedSteps \subseteq dispensed
    /\ Cardinality(dispensed) = 4
    /\ tx.name = "Dispense"
    /\ tx.args[1] = Whole(StageBurst.fine)

\* C23: in dispense_powder_seq started with the scale and the stepper
\* off, <ScaleOn>, <Tare> and <DispenserOn> are written in that order
\* before the first <Dispense,...>, and no Dispense is written while
\* isStepperOn is False.
C23_PrimingPrecedesDispensing ==
    op = DPS =>
        /\ tx.name = "Dispense" => isStepperOn
        /\ (~entry.scale /\ ~entry.stepper) =>
               \A k \in 1..Len(sent) :
                   sent[k].name = "Dispense" =>
                       \E i, j, l \in 1..(k - 1) :
                           /\ i < j /\ j < l
                           /\ sent[i].name = "ScaleOn"
                           /\ sent[j].name = "Tare"
                           /\ sent[l].name = "DispenserOn"

\* C23 witness: started with both off, the lump is on the link after
\* the priming commands
C23_LumpAfterPriming ==
    /\ op = DPS
    /\ ~entry.scale /\ ~entry.stepper
    /\ Len(sent) = 7
    /\ sent[1].name = "ScaleOn"
    /\ sent[6].name = "DispenserOn"
    /\ tx = sent[7]
    /\ tx.name = "Dispense"

\* C24: the step count of the initial lump is half the target divided
\* by the calibration factor (steps * factor * 2 = target); a target of
\* 5.00 g with a factor of 0.01 g per step gives 250 steps.
C24_InitialLumpSteps ==
    parsed = "lump" =>
        /\ result[2] > 0
        /\ result[1] * body.augCalFactor[1] * 2 =
               body.desired_amount * result[2] * body.augCalFactor[2]
        /\ (body.desired_amount = 500 /\ body.augCalFactor = Whole(1)) =>
               result = Whole(250)

\* C24 witness: the lump for 5.00 g at 0.01 g per step has been computed
C24_LumpOfFiveGrams ==
    /\ parsed = "lump"
    /\ body.desired_amount = 500
    /\ body.augCalFactor = Whole(1)
    /\ result = Whole(250)

\* a request is waiting for its reply and its deadline has not passed
WithinDeadline == tx # NoCmd /\ elapsed < timeout

\* C25: after construction isStepperOn (isScaleOn) is True exactly when the
\* last stepper (scale) power command written was <DispenserOn> (<ScaleOn>),
\* also when the wait for the reply of a power command has failed; only the
\* time a request is within its deadline is left out here.
C25_FlagsTrackLastCommand ==
    (constructed /\ ~WithinDeadline) =>
        /\ isStepperOn <=> lastStepper = "DispenserOn"
        /\ isScaleOn <=> lastScale = "ScaleOn"

\* run_command takes the frame it was waiting for off the buffer
ReadsReply ==
    /\ At("rc_wait")
    /\ origin # <<>>
    /\ RecvFromArduino(rx).done
    /\ rx' = RecvFromArduino(rx).rest

\* C26: the frame that ends the wait of a run_command was sent by the
\* firmware for the command of that run_command, never for an earlier one.
C26_ReplyBelongsToRequest ==
    [][ReadsReply => Head(origin) = "reply"]_vars

\* the tag each of the two looks for
TagOf == [get_weight |-> TagWeight, get_raw |-> TagADC]

\* in b, position t holds the tag, then ':', then a number that ends the
\* body or is followed by ','
ValueFollowsTag(b, tag, t) ==
    /\ b[t] = tag
    /\ t + 2 <= Len(b)
    /\ b[t + 1] = COLON
    /\ IsNumLit(b[t + 2])
    /\ t + 3 <= Len(b) => b[t + 3] = COMMA

\* C27: for a body with '<tag>:' followed by a number, get_weight / get_raw
\* return that number, whatever precedes the tag in the body.
C27_FirstValueAfterTag ==
    parsed \in {"get_weight", "get_raw"} =>
        \A t \in 1..Len(body) :
            (/\ ValueFollowsTag(body, TagOf[parsed], t)
             /\ \A u \in 1..(t - 1) : body[u] # TagOf[parsed]) =>
                result = FloatOf(<<body[t + 2]>>)

\* what the constructor writes
InitFrames == <<Cmd("DispenserOff", <<>>), Cmd("ScaleOff", <<>>)>>

\* C28: the constructor writes nothing before the banner, then exactly
\* <DispenserOff> and <ScaleOff>, once each and in that order, and it
\* returns with isStepperOn and isScaleOn False.
C28_ConstructionPowersDown ==
    op = "__init__" =>
        /\ \E n \in 0..2 : sent = SubSeq(InitFrames, 1, n)
        /\ sent # <<>> => bannerSeen
        /\ outcome # "running" =>
               /\ outcome = "ok"
               /\ sent = InitFrames
               /\ ~isStepperOn
               /\ ~isScaleOn

\* C28 witness: the constructor has returned
C28_Constructed ==
    /\ op = "__init__"
    /\ outcome = "ok"
    /\ lastStepper = "DispenserOff"
    /\ lastScale = "ScaleOff"

\* the Dispense frames among those written
Dispenses == {i \in 1..Len(sent) : sent[i].name = "Dispense"}

\* C29: in calibrate_scale_seq an <ADC,...> request is on the link only
\* when the operator has confirmed since the last data point was recorded;
\* in calibrate_auger_seq every Dispense but the last written has its
\* measured mass entered by the operator.
C29_OperatorGated ==
    /\ (op = "calibrate_scale_seq" /\ tx.name = "ADC") => confirmed
    /\ op = "calibrate_auger_seq" =>
           /\ Cardinality(Dispenses) <= Len(measured_amounts) + 1
           /\ Len(measured_amounts) = Len(steps_list)
           /\ \A i \in 1..Len(measured_amounts) :
                  measured_amounts[i] \in OperatorEntries

\* C29 witness: the reading for the second data point has been requested,
\* after the operator confirmed that the weight is on the scale
C29_SecondPointRequested ==
    /\ op = "calibrate_scale_seq"
    /\ Len(calibration_data) = 1
    /\ tx.name = "ADC"
    /\ confirmed

\* C30: calibrate_auger_seq called without augerType and powderType does
\* not fail for want of them, and when it has returned it has dispensed the
\* step counts of range(minSteps, maxSteps + 1, stepInterval) in order
\* between one <DispenserOn> and one <DispenserOff> and has stored the
\* fitted slope as the factor of the default pair.
C30_DefaultPairCalibrated ==
    (/\ op = "calibrate_auger_seq"
     /\ params.augerType = NoArg
     /\ params.powderType = NoArg
     /\ outcome # "running") =>
        /\ outcome # "AttributeError"
        /\ outcome = "ok" =>
               /\ steps_list =
                      Range(params.minSteps, params.maxSteps, params.stepInterval)
               /\ sent = <<Cmd("DispenserOn", <<>>)>>
                      \o [i \in 1..Len(steps_list) |->
                             Cmd("Dispense",
                                 <<Whole(steps_list[i]), <<DEFAULT_direction>>>>)]
                      \o <<Cmd("DispenserOff", <<>>)>>
               /\ IsLeastSquaresSlope(
                      augers[DEFAULT_augerType][DEFAULT_powderType],
                      steps_list, measured_amounts)

\* C31: dispense_powder_seq for a pair that has no calibration factor
\* fails with nothing written to the link: no power command, no Dispense.
C31_MissingFactorAtBoundary ==
    (/\ op = DPS
     /\ entry.calibration.augers[DEFAULT_augerType][DEFAULT_powderType] = Missing) =>
        /\ sent = <<>>
        /\ tx = NoCmd
        /\ outcome # "ok"

\* C32: runPump for a pump of the table runs it for a * volume + b when
\* the volume is positive, whatever the time argument, else for the time
\* when that is positive; it writes exactly one <Pump,pin,duration> when
\* that duration is positive and nothing at all otherwise.
C32_PumpDuration ==
    (op = "runPump" /\ params.pump \in DOMAIN pumps) =>
        LET p == entry.calibration.pumps[params.pump]
            byVolume == params.volume # None /\ params.volume > 0
            byTime == ~byVolume /\ params.time # None /\ params.time > 0
            duration == IF byVolume THEN p.a * params.volume + p.b
                        ELSE params.time
            frame == Cmd("Pump", <<Whole(p.pin), Whole(duration)>>)
        IN  IF (byVolume \/ byTime) /\ duration > 0
            THEN /\ sent \in {<<>>, <<frame>>}
                 /\ tx \in {NoCmd, frame}
                 /\ outcome \in {"running", "ok"}
                 /\ outcome = "ok" => sent = <<frame>>
            ELSE /\ sent = <<>>
                 /\ tx = NoCmd
                 /\ outcome \in {"running", "ok"}

\* C32 witness: runPump('Flush', volume = 1, time = 4) has returned after
\* <Pump,12,3>, the duration 2 * 1 + 1 of the volume
C32_VolumeBeforeTime ==
    /\ op = "runPump"
    /\ outcome = "ok"
    /\ params.volume = 1
    /\ params.time = 4
    /\ sent = <<Cmd("Pump", <<Whole(12), Whole(3)>>)>>

\* C33: a reset that has returned wrote <Drain,drainTime>, then
\* <Pump,pin,flushTime> for the Flush pump, then <Drain,drainTime>, and
\* nothing else.
C33_ResetSequence ==
    (op = "reset" /\ outcome = "ok") =>
        LET drain == Cmd("Drain", <<Whole(params.drainTime)>>)
            flush == Cmd("Pump", <<Whole(entry.calibration.pumps["Flush"].pin),
                                   Whole(params.flushTime)>>)
        IN  sent = <<drain, flush, drain>>

====
